---- MODULE Spec2Model ----
(***************************************************************************)
(* Natural-language trace retrieval engine of toolbrain-tracing:           *)
(*   - the conversation store (chat_sessions / chat_messages tables),      *)
(*   - the Query Execution Guard (execute_read_only_sql),                  *)
(*   - the Librarian agent's query protocol and its HTTP endpoint,         *)
(*   - similarity search over the stored traces.                           *)
(* Six specifications share the variables:                                 *)
(*   Spec       one answer_query turn after another (endpoint + agent),    *)
(*   SpecStore  arbitrary save_chat_message / get_chat_history calls,      *)
(*   SpecRace   the save_chat_message calls of two concurrent turns,       *)
(*   SpecGuard  one execute_read_only_sql call on either backend,          *)
(*   SpecReply  one terminal branch of query(): from the final reply to    *)
(*              the result dict, in either package,                        *)
(*   SpecSearch one search_similar_experiences call on either backend.     *)
(***************************************************************************)
EXTENDS Integers, Sequences, FiniteSets, TLC

VARIABLES
    \* ---- conversation store (db/base.py ChatSession, ChatMessage) ----
    messages,    \* chat_messages rows in insertion (autoincrement id) order
    sessions,    \* ids of the chat_sessions rows
    clock,       \* last value datetime.utcnow produced
    ties,        \* number of saves that got the timestamp of the save before
    \* ---- one answer_query turn (endpoint + LibrarianAgent.query) ----
    avail,       \* LIBRARIAN_AVAILABLE (fixed at import)
    turnsLeft,   \* answer_query calls the behaviour may still start
    pc,          \* position of the running turn
    sid,         \* session id of the running turn
    question,    \* user_query of the running turn
    tools,       \* provider.supports_tools of the selected provider
    iter,        \* iterations of the range(3) loop already started
    resp,        \* the latest response the tool loop received: "calls" | "text"
    credit,      \* tool calls the provider may still request for dispatch
    batch,       \* tool calls of the current batch not yet dispatched
    lastSql,     \* last_sql_result: "none" or "rows"
    sawSql,      \* saw_sql_result
    text,        \* kind of the answer text being synthesised
    raised,      \* exception that left query(): "none" | "provider" | "store"
    result,      \* dict returned by query(), or NoResult
    response,    \* NaturalLanguageResponse returned to the caller, or NoResult
    \* ---- history variables of the running turn ----
    ev,          \* external calls made by the turn so far, in order
    attempts,    \* outcomes of the run_sql_query calls of the turn, in order
    histBefore,  \* get_chat_history result the turn started from
    lastCall,    \* the tool call dispatched last: its name, arguments and result
    lastSqlAt,   \* the run_sql_query attempt whose rows last_sql_result holds, 0 for None
    \* ---- store client (SpecStore) ----
    lastRead,    \* result of the last get_chat_history call
    \* ---- building a result from a reply (SpecReply) ----
    variant,     \* package whose LibrarianAgent runs: "tracebrain" | "toolbrain_tracing"
    reply,       \* the provider's reply the result was built from, or NoResult
    \* ---- guard (SpecGuard) ----
    db,          \* persisted Trace/Span/conversation rows, abstractly a set of row ids
    db0,         \* db when the last guard call began
    gq,          \* query text of the last guard call, as its list of statements
    backend,     \* engine.dialect.name
    gres,        \* value the last guard call returned
    gopened,     \* the last guard call opened a database session
    gexec,       \* statements the engine executed for the last guard call
    glimit,      \* row_limit of the last guard call
    gfault,      \* fault the last guard call met
    gproduced,   \* rows the engine produced for the last guard call, in order
    \* ---- similarity search (SpecSearch) ----
    traces,      \* the traces table: trace id -> embedding, distance, feedback
    sargs,       \* arguments of the last search_similar_experiences call, or NoResult
    sres,        \* value the last search_similar_experiences call returned, or NoResult
    sread,       \* the last search call ran its query over the stored embeddings
    \* ---- concurrent turns (SpecRace) ----
    savers       \* per concurrent turn: where its save_chat_message calls stand

storeVars == <<messages, sessions, clock, ties>>
turnVars  == <<avail, turnsLeft, pc, sid, question, tools, iter, resp, credit, batch, lastSql,
               sawSql, text, raised, result, response, ev, attempts, histBefore>>
guardVars == <<db, db0, gq, backend, gres, gopened, gexec, glimit, gfault, gproduced>>
replyVars == <<variant, reply>>
searchVars == <<traces, sargs, sres, sread>>
raceVars == <<savers>>
callVars == <<lastCall, lastSqlAt>>
vars == <<storeVars, turnVars, lastRead, guardVars, replyVars, searchVars, raceVars, callVars>>

(***************************************************************************)
(* Bounds of the model.                                                    *)
(***************************************************************************)
MaxCalls      == 3   \* tool calls dispatched in a behaviour of one turn
MaxTurns      == 2   \* answer_query calls in a behaviour of several turns
MaxCallsTurns == 1   \* tool calls dispatched in a behaviour of several turns
MaxBatch      == 2   \* tool calls in one provider response
MaxTies     == 1   \* saves that receive the creation timestamp of the save before
MaxSessions == 2   \* session ids
MaxMessages == 3   \* save_chat_message calls in a behaviour of the store alone
MaxStmts    == 3   \* statements in one query text
MaxRows     == 2   \* rows in the database, and rows a SELECT produces

N_max == 3         \* range(3): tool-exchange iterations per query

SessionIds == 1..MaxSessions
Questions  == {"q1"}
Roles      == {"user", "assistant", "tool"}
NoResult   == [kind |-> "none"]

(***************************************************************************)
(* Conversation store.                                                     *)
(***************************************************************************)

\* ChatMessage.created_at default=datetime.utcnow: the wall clock read when the
\* row is inserted.  It does not go back here, and it may read the same value
\* for two consecutive inserts (at most MaxTies times in a behaviour).
utcnow ==
    {clock + 1} \cup (IF ties < MaxTies /\ messages # <<>> THEN {clock} ELSE {})

ChatMessage(s, r, c, t) == [sid |-> s, role |-> r, content |-> c, at |-> t]

\* save_chat_message, committed: the session row is created when missing and
\* the message row is inserted with created_at = t.
save_chat_message(s, r, c, t) ==
    /\ messages' = Append(messages, ChatMessage(s, r, c, t))
    /\ sessions' = sessions \cup {s}
    /\ ties' = IF t = clock THEN ties + 1 ELSE ties
    /\ clock' = t

\* save_chat_message when the commit raises: rollback, nothing is stored.
save_chat_message_fails == UNCHANGED storeVars

SessionRows(s) == {i \in 1..Len(messages) : messages[i].sid = s}

\* The orders in which ORDER BY created_at ASC may return the rows S: any
\* order sorted by created_at; rows of equal created_at come in any order.
RECURSIVE OrderedBy(_)
OrderedBy(S) ==
    IF S = {} THEN {<<>>}
    ELSE LET first == {i \in S : \A j \in S : messages[i].at <= messages[j].at}
         IN  UNION {{<<i>> \o o : o \in OrderedBy(S \ {i})} : i \in first}

\* Variant of get_chat_history without the filter on session_id.
get_chat_history_of_all(s) == OrderedBy(1..Len(messages))

\* get_chat_history: the possible results, each the list of row ids returned
\* (role, content and created_at of an entry are those of the row).
get_chat_history(s) == OrderedBy(SessionRows(s))

(***************************************************************************)
(* Provider and guard, as the Librarian sees them.                         *)
(***************************************************************************)

ToolNames == {"run_sql_query", "search_similar_traces", "other_tool"}

RECURSIVE SeqsUpTo(_, _)
SeqsUpTo(S, n) ==
    IF n = 0 THEN {<<>>}
    ELSE LET shorter == SeqsUpTo(S, n - 1)
         IN  shorter \cup {Append(q, x) : q \in shorter, x \in S}

\* provider.extract_tool_calls(response): the tool calls a response may carry.
ToolCallLists == SeqsUpTo(ToolNames, MaxBatch)

\* provider.extract_text(response): the kinds of reply text that the parsers
\* of the Librarian tell apart.
\*   json       a JSON object, its answer free of SQL
\*   json_sql   a JSON object that carries a SELECT (key sql/query, or in answer)
\*   json_list  valid JSON that is not an object
\*   json_blank a JSON object without a non-empty answer (and without SQL)
\*   raw        text that is not JSON and holds no SELECT
\*   raw_sql    text that is not JSON and holds a SELECT
\*   empty      the empty string
TextKinds == {"json", "json_sql", "json_blank", "json_list", "raw", "raw_sql", "empty"}

\* _extract_json: "object" / "list" when json.loads gives one, "raises" otherwise.
extract_json(k) ==
    CASE k \in {"json", "json_sql", "json_blank"} -> "object"
      [] k = "json_list"                          -> "list"
      [] OTHER                                    -> "raises"

\* _extract_sql(text) is not None.
extract_sql(k) == k \in {"json_sql", "raw_sql"}

\* What execute_read_only_sql may return, by kind.
GuardReturns == {"parse_error", "exec_error", "empty", "rows"}

\* run_sql_query: the tool result string, by its prefix.
run_sql_query(g) ==
    CASE g \in {"parse_error", "exec_error"} -> "EXECUTION_FAILED"
      [] g = "empty"                         -> "EMPTY_RESULT"
      [] OTHER                               -> "ROWS"

\* search_similar_traces: json.dumps of the list of similar traces, "[]" when
\* the search found none (g = "empty").
search_similar_traces(g) == IF g = "empty" THEN "[]" ELSE "SEARCH_RESULTS"

\* The answer string of a synthesised result:
\* str(parsed.get("answer", "")).strip() or "No response."
answer_of(k) ==
    CASE k = "json"     -> "ANSWER"
      [] k = "json_sql" -> "ANSWER_WITH_SQL"
      [] k = "raw"      -> "RAW_TEXT"
      [] k = "raw_sql"  -> "RAW_TEXT_WITH_SQL"
      [] OTHER          -> "No response."

FALLBACK    == "Unable to generate a valid SQL query. Please refine the question."
CANNED      == "I could not find any matching data. Can you clarify what you want to explore next?"
UNAVAILABLE == "Librarian is not available. Please check LLM provider configuration and API keys."

(***************************************************************************)
(* One answer_query turn: the endpoint natural_language_query and          *)
(* LibrarianAgent.query.  ev lists the external calls of the turn:         *)
(*   "history" "save:user" "save:tool" "save:assistant"   store calls      *)
(*   "prov:ask" "prov:tool_result" "prov:error" "prov:synth" "prov:fix"    *)
(*   "prov:abstain"                                  provider exchanges    *)
(*   "guard" "search"               execute_read_only_sql / similarity     *)
(* A call that raises is listed too; raised then names the fault.          *)
(***************************************************************************)

IsProviderCall(e) ==
    e \in {"prov:ask", "prov:tool_result", "prov:error", "prov:synth", "prov:fix",
           "prov:abstain"}

loopVars == <<iter, resp, credit, batch, lastSql, sawSql, text>>

\* Variant of Raise in which the call that raised is made a second time
\* before the exception leaves query().
RaiseAfterSecondTry(kind, evs) ==
    /\ raised' = kind
    /\ result' = NoResult
    /\ ev' = ev \o evs \o <<evs[Len(evs)]>>
    /\ pc' = "respond"

\* An exception leaves query() after the calls evs.
Raise(kind, evs) ==
    /\ raised' = kind
    /\ result' = NoResult
    /\ ev' = ev \o evs
    /\ pc' = "respond"

\* self.store.save_chat_message(session_id, "assistant", ...) ; return result
PersistAndReturn(res, evs) ==
    /\ ev' = ev \o evs \o <<"save:assistant">>
    /\ pc' = "respond"
    /\ \/ /\ \E t \in utcnow : save_chat_message(sid, "assistant", res.answer, t)
          /\ result' = res
          /\ raised' = "none"
       \/ /\ save_chat_message_fails
          /\ result' = NoResult
          /\ raised' = "store"

\* NaturalLanguageResponse(answer=..., session_id=..., sources=...): the
\* response model declares sources as List[str], so the constructor refuses
\* sources=None with a ValidationError (the caller gets an error that holds
\* no session id); src is "null" or "list".
NaturalLanguageResponse(k, a, s, src) ==
    IF src = "null"
    THEN [kind |-> "error", answer |-> "ValidationError"]
    ELSE [kind |-> k, answer |-> a, session_id |-> s]

\* Endpoint entry: session_id = query.session_id or uuid4(); the availability
\* check (its response is built with sources=None, outside the try); then
\* agent.query is called.
natural_language_query(s, q) ==
    /\ pc = "idle"
    /\ turnsLeft > 0
    /\ sid' = s
    /\ question' = q
    /\ iter' = 0 /\ resp' = "text" /\ batch' = <<>> /\ lastSql' = "none"
    /\ UNCHANGED credit
    /\ sawSql' = FALSE /\ text' = "empty" /\ tools' = FALSE
    /\ raised' = "none" /\ result' = NoResult
    /\ ev' = <<>> /\ attempts' = <<>> /\ histBefore' = <<>>
    /\ turnsLeft' = turnsLeft - 1
    /\ IF avail
       THEN /\ pc' = "start"
            /\ response' = NoResult
       ELSE /\ pc' = "idle"
            /\ response' = NaturalLanguageResponse("unavailable", UNAVAILABLE, s, "null")
    /\ lastCall' = NoResult /\ lastSqlAt' = 0
    /\ UNCHANGED <<storeVars, avail, lastRead, guardVars>>
    /\ UNCHANGED <<replyVars, searchVars, raceVars>>

\* Variant of Start that goes on to the provider without saving the user
\* message.
StartWithoutSave ==
    /\ pc = "start"
    /\ \E st \in BOOLEAN : tools' = st
    /\ \/ /\ Raise("store", <<"history">>)
          /\ UNCHANGED histBefore
       \/ \E h \in get_chat_history(sid) :
             /\ histBefore' = h
             /\ pc' = IF tools' THEN "tool_ask" ELSE "text_loop"
             /\ ev' = ev \o <<"history">>
             /\ UNCHANGED <<raised, result>>
    /\ UNCHANGED <<storeVars, avail, turnsLeft, sid, question, loopVars, response,
                   attempts, lastRead, guardVars>>
    /\ UNCHANGED <<replyVars, searchVars, raceVars, callVars>>

\* query(), Start: select_provider, get_chat_history, save the user message.
Start ==
    /\ pc = "start"
    /\ \E st \in BOOLEAN : tools' = st
    /\ \/ \* get_chat_history raises
          /\ Raise("store", <<"history">>)
          /\ UNCHANGED <<storeVars, histBefore>>
       \/ \E h \in get_chat_history(sid) :
             /\ histBefore' = h
             /\ \/ /\ \E t \in utcnow : save_chat_message(sid, "user", question, t)
                   /\ pc' = IF tools' THEN "tool_ask" ELSE "text_loop"
                   /\ ev' = ev \o <<"history", "save:user">>
                   /\ UNCHANGED <<raised, result>>
                \/ /\ save_chat_message_fails
                   /\ Raise("store", <<"history", "save:user">>)
    /\ UNCHANGED <<avail, turnsLeft, sid, question, loopVars, response, attempts,
                   lastRead, guardVars>>
    /\ UNCHANGED <<replyVars, searchVars, raceVars, callVars>>

\* Variant of after_text_result that asks again after rows were found.
after_text_result_keeps_asking(tr) ==
    CASE tr = "EMPTY_RESULT" -> "abstain"
      [] OTHER               -> "retry"

\* The decision after run_sql_query on the plain-text path.
after_text_result(tr) ==
    CASE tr = "EXECUTION_FAILED" -> "retry"
      [] tr = "EMPTY_RESULT"     -> "abstain"
      [] OTHER                   -> "synth"

\* Variant of after_no_select in which a reply without a SELECT does not use
\* up an iteration.
after_no_select_free(i) == i

\* if not sql_query: ...; continue  -- the for loop goes to its next iteration.
after_no_select(i) == i + 1

\* One iteration of the plain-text loop: ask the provider, extract the SELECT,
\* run it.
TextIteration ==
    /\ pc = "text_loop"
    /\ iter < N_max
    /\ \/ /\ Raise("provider", <<"prov:ask">>)
          /\ UNCHANGED <<iter, attempts>>
       \/ \E k \in TextKinds :
             IF ~extract_sql(k)
             THEN /\ iter' = after_no_select(iter)
                  /\ ev' = ev \o <<"prov:ask">>
                  /\ UNCHANGED <<pc, attempts, raised, result>>
             ELSE \E g \in GuardReturns :
                  LET next == after_text_result(run_sql_query(g)) IN
                  /\ attempts' = Append(attempts, g)
                  /\ ev' = ev \o <<"prov:ask", "guard">>
                  /\ iter' = IF next = "retry" THEN iter + 1 ELSE iter
                  /\ pc' = CASE next = "retry"   -> "text_loop"
                              [] next = "abstain" -> "abstain"
                              [] OTHER            -> "text_synth"
                  /\ UNCHANGED <<raised, result>>
    /\ UNCHANGED <<storeVars, avail, turnsLeft, sid, question, tools, resp, credit, batch,
                   lastSql, sawSql, text, response, histBefore, lastRead, guardVars>>
    /\ UNCHANGED <<replyVars, searchVars, raceVars, callVars>>

\* The plain-text loop ran N_max iterations: the fixed fallback.
TextExhausted ==
    /\ pc = "text_loop"
    /\ iter >= N_max
    /\ PersistAndReturn([kind |-> "Exhausted", answer |-> FALLBACK], <<>>)
    /\ UNCHANGED <<avail, turnsLeft, sid, question, tools, loopVars, response, attempts,
                   histBefore, lastRead, guardVars>>
    /\ UNCHANGED <<replyVars, searchVars, raceVars, callVars>>

\* Plain-text path, rows found: one exchange for the answer, parse, persist.
TextSynthesis ==
    /\ pc = "text_synth"
    /\ \/ /\ Raise("provider", <<"prov:synth">>)
          /\ UNCHANGED <<storeVars, text>>
       \/ \E k \in TextKinds :
             /\ text' = k
             /\ IF extract_json(k) = "list"
                THEN /\ Raise("internal", <<"prov:synth">>)
                     /\ UNCHANGED storeVars
                ELSE PersistAndReturn([kind |-> "AnswerSynthesis",
                                       answer |-> answer_of(k)], <<"prov:synth">>)
    /\ UNCHANGED <<avail, turnsLeft, sid, question, tools, iter, resp, credit, batch, lastSql,
                   sawSql, response, attempts, histBefore, lastRead, guardVars>>
    /\ UNCHANGED <<replyVars, searchVars, raceVars, callVars>>

\* _abstain_response_from_llm: the answer of the Abstain result.  Any failure
\* of the exchange (fault, unparseable reply, non-object, empty answer) gives
\* the canned response.
abstain_answer(fault, k) ==
    IF fault \/ extract_json(k) # "object" \/ k = "json_blank"
    THEN CANNED
    ELSE "CLARIFICATION"

\* Abstain: one exchange for a tailored clarification, persist, return.
Abstain ==
    /\ pc = "abstain"
    /\ \E fault \in BOOLEAN, k \in TextKinds :
          /\ fault => k = "empty"
          /\ PersistAndReturn([kind |-> "Abstain", answer |-> abstain_answer(fault, k)],
                              <<"prov:abstain">>)
    /\ UNCHANGED <<avail, turnsLeft, sid, question, tools, loopVars, response, attempts,
                   histBefore, lastRead, guardVars>>
    /\ UNCHANGED <<replyVars, searchVars, raceVars, callVars>>

\* Top of the tool loop with the response r in hand: "for _ in range(3)",
\* "if not tool_calls: break".  (resp is set here, where the code goes on to
\* read the response; a response that is overwritten unread is not kept.)
EnterLoop(r) ==
    /\ resp' = IF r = <<>> THEN "text" ELSE "calls"
    /\ IF iter < N_max /\ r # <<>>
       THEN /\ Len(r) <= credit
            /\ credit' = credit - Len(r)
            /\ pc' = "dispatch"
            /\ batch' = r
            /\ iter' = iter + 1
       ELSE /\ pc' = "after_loop"
            /\ batch' = <<>>
            /\ UNCHANGED <<iter, credit>>

\* Tool path: start_chat with the tool declarations and the first exchange.
ToolAsk ==
    /\ pc = "tool_ask"
    /\ \/ /\ Raise("provider", <<"prov:ask">>)
          /\ UNCHANGED <<iter, resp, credit, batch>>
       \/ /\ \E r \in ToolCallLists : EnterLoop(r)
          /\ ev' = ev \o <<"prov:ask">>
          /\ UNCHANGED <<raised, result>>
    /\ UNCHANGED <<storeVars, avail, turnsLeft, sid, question, tools, lastSql, sawSql,
                   text, response, attempts, histBefore, lastRead, guardVars>>
    /\ UNCHANGED <<replyVars, searchVars, raceVars, callVars>>

\* Variant of after_tool_result that goes on with the batch after an empty
\* result.
after_tool_result_goes_on(name, tr) ==
    CASE name = "run_sql_query" /\ tr = "EXECUTION_FAILED" -> "retry"
      [] OTHER                                             -> "next"

\* Variant of after_tool_result that goes on with the batch after a failed
\* run_sql_query.
after_tool_result_no_break(name, tr) ==
    CASE name = "run_sql_query" /\ tr = "EMPTY_RESULT" -> "abstain"
      [] OTHER                                         -> "next"

\* Variant of after_tool_result that goes on after an empty result when an
\* earlier run_sql_query of the query gave rows.
after_tool_result_keeps_rows(name, tr) ==
    CASE name = "run_sql_query" /\ tr = "EXECUTION_FAILED"         -> "retry"
      [] name = "run_sql_query" /\ tr = "EMPTY_RESULT" /\ ~sawSql -> "abstain"
      [] OTHER                                                     -> "next"

\* Variant of after_tool_result that abstains when a similarity search found
\* nothing.
after_tool_result_empty_search_abstains(name, tr) ==
    CASE name = "run_sql_query" /\ tr = "EXECUTION_FAILED" -> "retry"
      [] name = "run_sql_query" /\ tr = "EMPTY_RESULT"     -> "abstain"
      [] name = "search_similar_traces" /\ tr = "[]"       -> "abstain"
      [] OTHER                                             -> "next"

\* The decision after a tool call's result was sent back to the provider.
after_tool_result(name, tr) ==
    CASE name = "run_sql_query" /\ tr = "EXECUTION_FAILED" -> "retry"
      [] name = "run_sql_query" /\ tr = "EMPTY_RESULT"     -> "abstain"
      [] OTHER                                             -> "next"

\* call.get("args") of a tool call: the query of a run_sql_query call; the
\* query of a search_similar_traces call with min_rating and limit, which are
\* 4 and 3 when the provider leaves them out.
CallArgs(name) ==
    CASE name = "run_sql_query"         -> {[query |-> "SELECT 1"]}
      [] name = "search_similar_traces" -> [query : {"slow"}, min_rating : {4, 2}, limit : {3}]
      [] OTHER                          -> {[query |-> ""]}

\* The content of the tool message of a call.
tool_message(name, args, tr) ==
    IF name = "run_sql_query"
    THEN "SQL: " \o args.query \o "\nRESULT: " \o tr
    ELSE "SEARCH: " \o args.query \o "\nRESULT: " \o tr

\* The tool result of one call and the store call it makes first.
tool_result(name, g) ==
    CASE name = "run_sql_query"         -> run_sql_query(g)
      [] name = "search_similar_traces" -> search_similar_traces(g)
      [] OTHER                          -> "UNKNOWN_TOOL"

\* Variant of tool_events in which the result of an unknown tool is saved as
\* a tool message too.
tool_events_saves_unknown(name) ==
    CASE name = "run_sql_query"         -> <<"guard", "save:tool">>
      [] name = "search_similar_traces" -> <<"search", "save:tool">>
      [] OTHER                          -> <<"save:tool">>

tool_events(name) ==
    CASE name = "run_sql_query"         -> <<"guard", "save:tool">>
      [] name = "search_similar_traces" -> <<"search", "save:tool">>
      [] OTHER                          -> <<>>

\* Variant of last_sql_result in which a failed or empty run_sql_query clears
\* the rows kept from an earlier one.
last_sql_result_cleared(name, tr, prev, n) ==
    IF name = "run_sql_query" THEN (IF tr = "ROWS" THEN n ELSE 0) ELSE prev

\* last_sql_result after one tool call: the result of this call (attempt n)
\* when it is a run_sql_query that gave rows, otherwise what it was.
last_sql_result(name, tr, prev, n) ==
    IF name = "run_sql_query" /\ tr = "ROWS" THEN n ELSE prev

\* One tool call of the batch: execute, record, send the result back, decide.
Dispatch ==
    /\ pc = "dispatch"
    /\ batch # <<>>
    /\ \E g \in GuardReturns, args \in CallArgs(Head(batch)) :
       LET name == Head(batch)
           tr   == tool_result(name, g)
           evs  == tool_events(name)
           next == after_tool_result(name, tr)
       IN
       /\ name = "search_similar_traces" => g \in {"empty", "rows"}
       /\ name \notin {"run_sql_query", "search_similar_traces"} => g = "rows"
       /\ lastCall' = [name |-> name, args |-> args, result |-> tr]
       /\ lastSqlAt' = last_sql_result(name, tr, lastSqlAt, Len(attempts) + 1)
       /\ attempts' = IF name = "run_sql_query" THEN Append(attempts, g) ELSE attempts
       /\ IF name = "run_sql_query" /\ tr = "ROWS"
          THEN lastSql' = "rows" /\ sawSql' = TRUE
          ELSE UNCHANGED <<lastSql, sawSql>>
       /\ \/ \* int(args.get("min_rating", 4)), int(args.get("limit", 3)) or the
             \* search itself raises
             /\ name = "search_similar_traces"
             /\ g = "rows"
             /\ UNCHANGED storeVars
             /\ Raise("search", <<"search">>)
             /\ UNCHANGED <<iter, resp, credit, batch>>
          \/ \* the tool message cannot be saved
             /\ evs # <<>>
             /\ save_chat_message_fails
             /\ Raise("store", evs)
             /\ UNCHANGED <<iter, resp, credit, batch>>
          \/ /\ IF evs # <<>>
                THEN \E t \in utcnow :
                        save_chat_message(sid, "tool", tool_message(name, args, tr), t)
                ELSE UNCHANGED storeVars
             /\ \/ \* send_tool_result raises
                   /\ Raise("provider", evs \o <<"prov:tool_result">>)
                   /\ UNCHANGED <<iter, resp, credit, batch>>
                \/ /\ next = "retry"
                   /\ \/ /\ Raise("provider", evs \o <<"prov:tool_result", "prov:error">>)
                         /\ UNCHANGED <<iter, resp, credit, batch>>
                      \/ /\ \E r \in ToolCallLists : EnterLoop(r)
                         /\ ev' = ev \o evs \o <<"prov:tool_result", "prov:error">>
                         /\ UNCHANGED <<raised, result>>
                \/ /\ next = "abstain"
                   /\ pc' = "abstain"
                   /\ ev' = ev \o evs \o <<"prov:tool_result">>
                   /\ UNCHANGED <<iter, resp, credit, batch, raised, result>>
                \/ /\ next = "next"
                   /\ ev' = ev \o evs \o <<"prov:tool_result">>
                   /\ IF Tail(batch) = <<>>
                      THEN \E r \in ToolCallLists : EnterLoop(r)
                      ELSE /\ batch' = Tail(batch)
                           /\ UNCHANGED <<pc, iter, resp, credit>>
                   /\ UNCHANGED <<raised, result>>
    /\ UNCHANGED <<avail, turnsLeft, sid, question, tools, text, response, histBefore,
                   lastRead, guardVars>>
    /\ UNCHANGED <<replyVars, searchVars, raceVars>>

\* After the tool loop: the synthesis prompt when a run_sql_query gave rows,
\* then the reply text is parsed.
AfterLoop ==
    /\ pc = "after_loop"
    /\ LET evs == IF sawSql /\ lastSql # "none" THEN <<"prov:synth">> ELSE <<>> IN
       \/ /\ evs # <<>>
          /\ Raise("provider", evs)
          /\ UNCHANGED text
       \/ \E k \in TextKinds :
             /\ text' = k
             /\ IF extract_json(k) = "list"
                THEN Raise("internal", evs)
                ELSE /\ pc' = "leak_check"
                     /\ ev' = ev \o evs
                     /\ UNCHANGED <<raised, result>>
    /\ UNCHANGED <<storeVars, avail, turnsLeft, sid, question, tools, iter, resp, credit,
                   batch, lastSql, sawSql, response, attempts, histBefore, lastRead,
                   guardVars>>
    /\ UNCHANGED <<replyVars, searchVars, raceVars, callVars>>

\* Variant of Finish in which the reply to the corrective exchange is checked
\* for SQL again.
FinishChecksAgain ==
    /\ pc = "leak_check"
    /\ IF extract_sql(text)
       THEN \/ /\ Raise("provider", <<"prov:fix">>)
               /\ UNCHANGED <<storeVars, text>>
            \/ \E k \in TextKinds :
                  /\ text' = k
                  /\ ev' = ev \o <<"prov:fix">>
                  /\ UNCHANGED <<storeVars, pc, raised, result>>
       ELSE /\ PersistAndReturn([kind |-> "AnswerSynthesis",
                                 answer |-> answer_of(text)], <<>>)
            /\ UNCHANGED text
    /\ UNCHANGED <<avail, turnsLeft, sid, question, tools, iter, resp, credit, batch, lastSql,
                   sawSql, response, attempts, histBefore, lastRead, guardVars>>
    /\ UNCHANGED <<replyVars, searchVars, raceVars, callVars>>

\* The leaked-SQL check with its one corrective exchange, then normalise,
\* persist and return.
Finish ==
    /\ pc = "leak_check"
    /\ IF extract_sql(text)
       THEN \/ /\ Raise("provider", <<"prov:fix">>)
               /\ UNCHANGED <<storeVars, text>>
            \/ \E k \in TextKinds :
                  /\ text' = k
                  /\ IF extract_json(k) = "list"
                     THEN /\ Raise("internal", <<"prov:fix">>)
                          /\ UNCHANGED storeVars
                     ELSE PersistAndReturn([kind |-> "AnswerSynthesis",
                                            answer |-> answer_of(k)], <<"prov:fix">>)
       ELSE /\ PersistAndReturn([kind |-> "AnswerSynthesis",
                                 answer |-> answer_of(text)], <<>>)
            /\ UNCHANGED text
    /\ UNCHANGED <<avail, turnsLeft, sid, question, tools, iter, resp, credit, batch, lastSql,
                   sawSql, response, attempts, histBefore, lastRead, guardVars>>
    /\ UNCHANGED <<replyVars, searchVars, raceVars, callVars>>

\* str(e) of the exception that left query(): the internal message of the
\* fault (host names, keys, SQL, driver text), by the kind of the fault.
FaultDetails(kind) ==
    CASE kind = "provider" -> {"connection to api.internal:443 timed out",
                               "401 invalid api key sk-live-1"}
      [] kind = "store"    -> {"could not connect to server db.internal",
                               "relation chat_messages does not exist"}
      [] kind = "search"   -> {"invalid literal for int() with base 10: 'five'"}
      [] OTHER             -> {"'list' object has no attribute 'get'"}

\* The answer of the except branch.
except_answer(detail) ==
    "Sorry, I encountered an error processing your query: " \o detail

\* The endpoint returns: the result of query(), or the apology of its
\* except branch with str(e) in it.
Respond ==
    /\ pc = "respond"
    /\ IF raised # "none"
       THEN \E d \in FaultDetails(raised) :
               response' = NaturalLanguageResponse("failure", except_answer(d), sid, "list")
       ELSE response' = NaturalLanguageResponse(result.kind, result.answer, sid, "list")
    /\ pc' = "idle"
    /\ UNCHANGED <<storeVars, avail, turnsLeft, sid, question, tools, loopVars, raised, result,
                   ev, attempts, histBefore, lastRead, guardVars>>
    /\ UNCHANGED <<replyVars, searchVars, raceVars, callVars>>

\* query.session_id or str(uuid.uuid4()): the id of a stored session, or an
\* id no session has yet (the ids are interchangeable: the least unused one).
KnownOrFresh ==
    {s \in SessionIds : s \in sessions \/ \A u \in SessionIds \ sessions : s <= u}

\* A behaviour is one turn with many tool calls, or several turns with few.
Budgets == {<<1, MaxCalls>>, <<MaxTurns, MaxCallsTurns>>}

Init ==
    /\ messages = <<>> /\ sessions = {} /\ clock = 0 /\ ties = 0
    /\ avail \in BOOLEAN
    /\ \E b \in Budgets : turnsLeft = b[1] /\ credit = b[2]
    /\ pc = "idle" /\ sid = 0 /\ question = "none" /\ tools = FALSE
    /\ iter = 0 /\ resp = "text" /\ batch = <<>>
    /\ lastSql = "none" /\ sawSql = FALSE
    /\ text = "empty" /\ raised = "none" /\ result = NoResult /\ response = NoResult
    /\ ev = <<>> /\ attempts = <<>> /\ histBefore = <<>>
    /\ lastRead = [sid |-> 0, rows |-> <<>>, upto |-> 0]
    /\ variant = "tracebrain" /\ reply = NoResult
    /\ db = {} /\ db0 = {} /\ gq = <<>> /\ backend = "sqlite" /\ gres = NoResult
    /\ gopened = FALSE /\ gexec = <<>> /\ glimit = 0 /\ gfault = "none" /\ gproduced = <<>>
    /\ traces = <<>> /\ sargs = NoResult /\ sres = NoResult /\ sread = FALSE
    /\ savers = <<>> /\ lastCall = NoResult /\ lastSqlAt = 0

Next ==
    \/ \E s \in KnownOrFresh, q \in Questions : natural_language_query(s, q)
    \/ Start
    \/ TextIteration
    \/ TextExhausted
    \/ TextSynthesis
    \/ Abstain
    \/ ToolAsk
    \/ Dispatch
    \/ AfterLoop
    \/ Finish
    \/ Respond

Spec == Init /\ [][Next]_vars

(***************************************************************************)
(* The store alone: any client saving and reading messages.                *)
(***************************************************************************)

Contents == {"a", "b"}

StoreSave(s, r, c) ==
    /\ pc = "store"
    /\ Len(messages) < MaxMessages
    /\ \/ \E t \in utcnow : save_chat_message(s, r, c, t)
       \/ save_chat_message_fails
    /\ UNCHANGED <<turnVars, lastRead, guardVars>>
    /\ UNCHANGED <<replyVars, searchVars, raceVars, callVars>>

StoreRead(s) ==
    /\ pc = "store"
    /\ \E h \in get_chat_history(s) :
          lastRead' = [sid |-> s, rows |-> h, upto |-> Len(messages)]
    /\ UNCHANGED <<storeVars, turnVars, guardVars>>
    /\ UNCHANGED <<replyVars, searchVars, raceVars, callVars>>

InitStore ==
    /\ messages = <<>> /\ sessions = {} /\ clock = 0 /\ ties = 0
    /\ avail = TRUE /\ turnsLeft = 0 /\ credit = 0
    /\ pc = "store" /\ sid = 0 /\ question = "none" /\ tools = FALSE
    /\ iter = 0 /\ resp = "text" /\ batch = <<>>
    /\ lastSql = "none" /\ sawSql = FALSE
    /\ text = "empty" /\ raised = "none" /\ result = NoResult /\ response = NoResult
    /\ ev = <<>> /\ attempts = <<>> /\ histBefore = <<>>
    /\ lastRead = [sid |-> 0, rows |-> <<>>, upto |-> 0]
    /\ variant = "tracebrain" /\ reply = NoResult
    /\ db = {} /\ db0 = {} /\ gq = <<>> /\ backend = "sqlite" /\ gres = NoResult
    /\ gopened = FALSE /\ gexec = <<>> /\ glimit = 0 /\ gfault = "none" /\ gproduced = <<>>
    /\ traces = <<>> /\ sargs = NoResult /\ sres = NoResult /\ sread = FALSE
    /\ savers = <<>> /\ lastCall = NoResult /\ lastSqlAt = 0

NextStore ==
    \/ \E s \in SessionIds, r \in Roles, c \in Contents : StoreSave(s, r, c)
    \/ \E s \in SessionIds : StoreRead(s)

SpecStore == InitStore /\ [][NextStore]_vars

(***************************************************************************)
(* Concurrent turns (SpecRace): the save_chat_message calls of two turns   *)
(* that run at the same time, each in its own database session.  A call is *)
(* two steps: the SELECT of the chat_sessions row, then the INSERTs and    *)
(* the commit.                                                             *)
(***************************************************************************)
MaxSaves == 2      \* save_chat_message calls of one concurrent turn

Turns == {1, 2}

\* The role and the content of the k-th message that turn p saves.
RaceRole(k) == IF k = 1 THEN "user" ELSE "assistant"
RaceContent(p, k) ==
    (IF p = 1 THEN "turn1:" ELSE "turn2:") \o (IF k = 1 THEN "1" ELSE IF k = 2 THEN "2" ELSE "3")

\* session.query(ChatSession).filter(ChatSession.id == session_id).first()
SelectSession(p) ==
    /\ pc = "race"
    /\ savers[p].pc = "select"
    /\ savers' = [savers EXCEPT ![p].pc = "commit",
                                ![p].found = (savers[p].sid \in sessions)]
    /\ UNCHANGED <<storeVars, turnVars, lastRead, guardVars, replyVars, searchVars, callVars>>

\* session.add(chat_session) when none was found; session.add(message);
\* session.commit().  chat_sessions.id is the primary key: inserting a row
\* whose id another transaction has committed meanwhile fails with an
\* IntegrityError; the except branch rolls back and re-raises, which ends the
\* turn.
CommitMessage(p) ==
    /\ pc = "race"
    /\ savers[p].pc = "commit"
    /\ LET s == savers[p].sid
           k == savers[p].saved + 1
       IN  IF ~savers[p].found /\ s \in sessions
           THEN /\ save_chat_message_fails
                /\ savers' = [savers EXCEPT ![p].pc = "raised"]
           ELSE /\ \E t \in utcnow :
                      save_chat_message(s, RaceRole(k), RaceContent(p, k), t)
                /\ savers' = [savers EXCEPT ![p].saved = k,
                                            ![p].pc = IF k = MaxSaves THEN "done"
                                                      ELSE "select"]
    /\ UNCHANGED <<turnVars, lastRead, guardVars, replyVars, searchVars, callVars>>

InitRace ==
    /\ \E known \in SUBSET SessionIds :
          /\ sessions = known
          /\ messages = <<>> /\ clock = 0 /\ ties = 0
    /\ avail = TRUE /\ turnsLeft = 0 /\ credit = 0
    /\ pc = "race" /\ sid = 0 /\ question = "none" /\ tools = FALSE
    /\ iter = 0 /\ resp = "text" /\ batch = <<>>
    /\ lastSql = "none" /\ sawSql = FALSE
    /\ text = "empty" /\ raised = "none" /\ result = NoResult /\ response = NoResult
    /\ ev = <<>> /\ attempts = <<>> /\ histBefore = <<>>
    /\ lastRead = [sid |-> 0, rows |-> <<>>, upto |-> 0]
    /\ variant = "tracebrain" /\ reply = NoResult
    /\ db = {} /\ db0 = {} /\ gq = <<>> /\ backend = "sqlite" /\ gres = NoResult
    /\ gopened = FALSE /\ gexec = <<>> /\ glimit = 0 /\ gfault = "none" /\ gproduced = <<>>
    /\ traces = <<>> /\ sargs = NoResult /\ sres = NoResult /\ sread = FALSE
    /\ \E s1, s2 \in SessionIds :
          savers = [p \in Turns |->
                       [sid |-> IF p = 1 THEN s1 ELSE s2, pc |-> "select",
                        found |-> FALSE, saved |-> 0]]
    /\ lastCall = NoResult /\ lastSqlAt = 0

NextRace ==
    \E p \in Turns : SelectSession(p) \/ CommitMessage(p)

SpecRace == InitRace /\ [][NextRace]_vars

(***************************************************************************)
(* Query Execution Guard: execute_read_only_sql.                           *)
(* A query text is given by the statements sqlparse splits it into; a      *)
(* statement by what it does: SELECT reads, DELETE writes, COMMIT ends the *)
(* running transaction.                                                    *)
(***************************************************************************)

StmtKinds  == {"SELECT", "DELETE", "COMMIT"}
QueryTexts == SeqsUpTo(StmtKinds, MaxStmts)
Backends   == {"sqlite", "postgresql"}

\* Faults met during the call: sqlparse raising on the text; the connection
\* failing when the session is first used; the pool timing out while a
\* connection is awaited (sqlalchemy.exc.TimeoutError); the engine cancelling
\* the statement when statement_timeout elapsed (the driver's QueryCanceled,
\* which SQLAlchemy raises as OperationalError); the engine refusing the
\* statement (ProgrammingError); any other exception.
EngineFaults == {"none", "parse", "connect", "pool_timeout", "statement_timeout",
                 "programming", "other"}

\* The result sets a SELECT may produce and the row limits of a call.
ResultSets == SeqsUpTo(1..MaxRows, MaxRows)
RowLimits  == 1..MaxRows

\* Variant of fetchmany that returns every row.
fetchall(produced, size) == produced

\* result.fetchmany(row_limit): the first row_limit rows, in order.
fetchmany(produced, size) ==
    SubSeq(produced, 1, IF size < Len(produced) THEN size ELSE Len(produced))

\* The error values, by the except clause that builds them.
ParsingError   == [kind |-> "parse_error", error |-> "SQL Parsing Error: ..."]
TimedOutError  == [kind |-> "timeout",
                   error |-> "SQL Execution Error: The query took too long to execute and was timed out. Please write a more efficient query."]
ExecutionError == [kind |-> "exec_error", error |-> "SQL Execution Error: ..."]
InternalError  == [kind |-> "internal_error",
                   error |-> "An unexpected internal error occurred."]

\* Statement.get_type() of sqlparse: the first DML keyword, else UNKNOWN.
get_type(stmt) == IF stmt \in {"SELECT", "DELETE"} THEN stmt ELSE "UNKNOWN"

\* The parsing check: "not parsed or parsed[0].get_type() != 'SELECT'" rejects.
accepted(q) == q # <<>> /\ get_type(q[1]) = "SELECT"

\* PostgreSQL runs the statements of one text in order.  st is the state of
\* the connection: committed rows, rows as the open transaction sees them,
\* whether the transaction begun by the driver is still open, whether it is
\* read-only (SET LOCAL TRANSACTION READ ONLY lasts to the end of that
\* transaction), the statements executed, and whether a statement failed.
RECURSIVE PgRun(_, _)
PgRun(q, st) ==
    IF q = <<>> \/ st.failed THEN st
    ELSE LET stmt == Head(q)
             ran  == [st EXCEPT !.exec = Append(st.exec, stmt)]
         IN  CASE stmt = "SELECT" -> PgRun(Tail(q), ran)
               [] stmt = "DELETE" ->
                    IF st.readOnly
                    THEN [st EXCEPT !.failed = TRUE, !.working = st.committed]
                    ELSE PgRun(Tail(q), [ran EXCEPT !.working = {}])
               [] OTHER -> \* COMMIT
                    PgRun(Tail(q), [ran EXCEPT !.committed = st.working,
                                              !.inDriverTx = FALSE,
                                              !.readOnly = FALSE])

\* session.execute(text(query)) and the close of the session, which rolls
\* back what is uncommitted.  Statements that run after the driver's
\* transaction ended are committed by the engine at the end of the text.
\* Gives [db, exec, failed].
engine_execute(be, q, rows) ==
    IF be = "sqlite"
    THEN \* the sqlite3 driver executes one statement per call
         IF Len(q) > 1 THEN [db |-> rows, exec |-> <<>>, failed |-> TRUE]
         ELSE [db |-> rows, exec |-> q, failed |-> FALSE]
    ELSE LET end == PgRun(q, [committed |-> rows, working |-> rows,
                               inDriverTx |-> TRUE, readOnly |-> TRUE,
                               exec |-> <<>>, failed |-> FALSE])
         IN  [db     |-> IF end.inDriverTx \/ end.failed THEN end.committed
                         ELSE end.working,
              exec   |-> end.exec,
              failed |-> end.failed]

\* Variant of guard_result that lets the exceptions without a clause of
\* their own leave the call.
guard_result_propagating(q, f, run, rows) ==
    CASE f = "pool_timeout" -> TimedOutError
      [] f = "programming"  -> ExecutionError
      [] f \in {"connect", "statement_timeout", "other"} -> [kind |-> "raised"]
      [] run.failed         -> ExecutionError
      [] q[Len(q)] # "SELECT" -> [kind |-> "raised"]
      [] OTHER              -> [kind |-> "rows", rows |-> rows, count |-> Len(rows)]

\* The value returned once the text passed the parsing check: by the except
\* clause the fault meets, else {rows, count}.  (A text whose last statement
\* returns no rows makes result.keys() raise.)
guard_result(q, f, run, rows) ==
    CASE f = "pool_timeout" -> TimedOutError
      [] f = "programming"  -> ExecutionError
      [] f \in {"connect", "statement_timeout", "other"} -> InternalError
      [] run.failed         -> ExecutionError
      [] q[Len(q)] # "SELECT" -> InternalError
      [] OTHER              -> [kind |-> "rows", rows |-> rows, count |-> Len(rows)]

\* execute_read_only_sql(query, row_limit): the whole call.  f is the fault
\* met (a fault of the engine strikes before any statement takes effect),
\* produced the rows the engine produces for the text.
execute_read_only_sql(q, f, produced, row_limit) ==
    /\ pc = "guard"
    /\ pc' = "guard_done"
    /\ gq' = q
    /\ db0' = db
    /\ glimit' = row_limit
    /\ gfault' = f
    /\ IF f = "parse" \/ ~accepted(q)
       THEN /\ gres' = ParsingError
            /\ gopened' = FALSE
            /\ gexec' = <<>>
            /\ gproduced' = <<>>
            /\ db' = db
       ELSE LET run == IF f = "none" THEN engine_execute(backend, q, db)
                       ELSE [db |-> db, exec |-> <<>>, failed |-> TRUE]
            IN  /\ gopened' = TRUE
                /\ gexec' = run.exec
                /\ db' = run.db
                /\ gproduced' = IF f = "none" /\ ~run.failed /\ q[Len(q)] = "SELECT"
                                THEN produced ELSE <<>>
                /\ gres' = guard_result(q, f, run, fetchmany(gproduced', row_limit))
    /\ UNCHANGED <<storeVars, avail, turnsLeft, sid, question, tools, loopVars, raised,
                   result, response, ev, attempts, histBefore, lastRead, backend>>
    /\ UNCHANGED <<replyVars, searchVars, raceVars, callVars>>

InitGuard ==
    /\ messages = <<>> /\ sessions = {} /\ clock = 0 /\ ties = 0
    /\ avail = TRUE /\ turnsLeft = 0 /\ credit = 0
    /\ pc = "guard" /\ sid = 0 /\ question = "none" /\ tools = FALSE
    /\ iter = 0 /\ resp = "text" /\ batch = <<>>
    /\ lastSql = "none" /\ sawSql = FALSE
    /\ text = "empty" /\ raised = "none" /\ result = NoResult /\ response = NoResult
    /\ ev = <<>> /\ attempts = <<>> /\ histBefore = <<>>
    /\ lastRead = [sid |-> 0, rows |-> <<>>, upto |-> 0]
    /\ variant = "tracebrain" /\ reply = NoResult
    /\ db \in SUBSET (1..MaxRows) /\ db0 = db /\ gq = <<>>
    /\ backend \in Backends
    /\ gres = NoResult /\ gopened = FALSE /\ gexec = <<>>
    /\ glimit = 0 /\ gfault = "none" /\ gproduced = <<>>
    /\ traces = <<>> /\ sargs = NoResult /\ sres = NoResult /\ sread = FALSE
    /\ savers = <<>> /\ lastCall = NoResult /\ lastSqlAt = 0

NextGuard ==
    \E q \in QueryTexts, f \in EngineFaults, produced \in ResultSets,
       row_limit \in RowLimits :
        execute_read_only_sql(q, f, produced, row_limit)

SpecGuard == InitGuard /\ [][NextGuard]_vars

(***************************************************************************)
(* From the provider's reply to the result dict.  JSON values are tagged   *)
(* records; a reply text is given by what json.loads makes of it, or by    *)
(* its characters when it is not JSON.                                     *)
(***************************************************************************)

TRACE_ID  == "0123456789abcdef0123456789abcdef"
PADDED    == "  No traces matched.  "
WITH_ID   == "Trace 0123456789abcdef0123456789abcdef failed."

Absent         == [t |-> "absent"]     \* the key is not in the object
JNull          == [t |-> "null"]
JStr(v)        == [t |-> "str", v |-> v]
JNum(v)        == [t |-> "num", v |-> v]   \* v: the digits
JList(v)       == [t |-> "list", v |-> v]
JDict(l, v)    == [t |-> "dict", label |-> l, value |-> v]
JObject(a, sg, so) ==
    [t |-> "object", answer |-> a, suggestions |-> sg, sources |-> so]

\* str(x) for the value x; dflt is what dict.get gives for a missing key.
py_str(x, dflt) ==
    CASE x.t = "absent" -> dflt
      [] x.t = "null"   -> "None"
      [] x.t \in {"str", "num"} -> x.v
      [] OTHER          -> "[...]"

\* s.strip()
strip(s) ==
    CASE s = PADDED -> "No traces matched."
      [] s = " "    -> ""
      [] OTHER      -> s

\* bool(x)
truthy(x) ==
    CASE x.t \in {"absent", "null"} -> FALSE
      [] x.t = "str"  -> x.v # ""
      [] x.t = "list" -> x.v # <<>>
      [] OTHER        -> TRUE

\* _extract_sources(answer): the 32-hex-digit ids found in the answer, or None.
extract_sources(answer) ==
    IF answer = WITH_ID THEN JList(<<JStr(TRACE_ID)>>) ELSE JNull

\* _normalize_suggestions(suggestions)
normalize_suggestions(sg) ==
    IF sg.t # "list" THEN <<>>
    ELSE LET keep(item) == /\ item.t = "dict"
                           /\ strip(py_str(item.label, "")) # ""
                           /\ strip(py_str(item.value, "")) # ""
             kept == SelectSeq(sg.v, keep)
         IN  [i \in 1..Len(kept) |->
                 [label |-> strip(py_str(kept[i].label, "")),
                  value |-> strip(py_str(kept[i].value, ""))]]

\* list(dict.fromkeys(q)): the first occurrence of every entry, in order.
RECURSIVE fromkeys(_)
fromkeys(q) ==
    IF q = <<>> THEN <<>>
    ELSE LET init == fromkeys(SubSeq(q, 1, Len(q) - 1))
             last == q[Len(q)]
         IN  IF \E i \in 1..Len(init) : init[i] = last THEN init
             ELSE Append(init, last)

\* _normalize_sources(sources, answer)
normalize_sources(so, answer) ==
    IF so.t = "list"
    THEN LET strs    == [i \in 1..Len(so.v) |-> JStr(strip(py_str(so.v[i], "")))]
             nonempty(x) == x.v # ""
         IN  JList(fromkeys(SelectSeq(strs, nonempty)))
    ELSE LET extracted == extract_sources(answer)
         IN  IF truthy(extracted) THEN extracted ELSE JList(<<>>)

\* The replies of a provider exchange.
GoodItem   == JDict(JStr("Widen time range"), JStr("Try the last 30 days"))
FieldStrs  == {Absent, JNull, JStr(""), JStr(PADDED), JStr(WITH_ID)}
SuggestionFields ==
    {Absent, JStr("none"), JList(<<>>), JList(<<GoodItem>>),
     JList(<<JStr("junk"), JDict(JStr(" "), JStr("x")), JDict(Absent, JStr("x")),
             GoodItem>>)}
SourceFields ==
    {Absent, JNull, JStr(TRACE_ID), JList(<<>>),
     JList(<<JStr(TRACE_ID), JStr(" "), JNum("7"), JStr(TRACE_ID)>>)}
JsonValues ==
    {JObject(a, sg, so) : a \in FieldStrs, sg \in SuggestionFields, so \in SourceFields}
        \cup {JList(<<>>), JStr("done")}
RawTexts == {"", PADDED, WITH_ID}
Replies ==
    {[form |-> "fault"]}
        \cup {[form |-> "raw", s |-> r] : r \in RawTexts}
        \cup {[form |-> "json", v |-> v] : v \in JsonValues}

\* _extract_json(text): the value json.loads gives, or "raises".
extract_json_value(r) ==
    IF r.form = "json" THEN r.v ELSE [t |-> "raises"]

\* try: parsed = self._extract_json(answer_text)
\* except Exception: parsed = {"answer": answer_text, "suggestions": [], "sources": None}
parsed_or_raw(r) ==
    LET v == extract_json_value(r)
    IN  IF v.t = "raises" THEN JObject(JStr(r.s), JList(<<>>), JNull) ELSE v

Variants == {"tracebrain", "toolbrain_tracing"}

\* _abstain_response()
abstain_response ==
    [kind |-> "Abstain", answer |-> CANNED,
     suggestions |-> <<[label |-> "Widen time range", value |-> "Try the last 30 days"],
                       [label |-> "Search by episode", value |-> "Filter by tracebrain.episode.id"],
                       [label |-> "Search by tool", value |-> "Filter by tracebrain.tool.name"]>>,
     sources |-> JList(<<>>)]

\* Variant of _abstain_response_from_llm without the check for an empty
\* answer.
abstain_response_from_llm_unchecked(r) ==
    LET v == extract_json_value(r) IN
    IF r.form = "fault" \/ v.t # "object" THEN abstain_response
    ELSE [kind |-> "Abstain", answer |-> strip(py_str(v.answer, "")),
          suggestions |-> normalize_suggestions(v.suggestions),
          sources |-> JList(<<>>)]

\* _abstain_response_from_llm: the result for the reply r of the
\* clarification exchange; every exception inside gives the canned response.
abstain_response_from_llm(r) ==
    LET v == extract_json_value(r) IN
    IF r.form = "fault" \/ v.t # "object" THEN abstain_response
    ELSE LET answer == strip(py_str(v.answer, ""))
         IN  IF answer = "" THEN abstain_response
             ELSE [kind |-> "Abstain", answer |-> answer,
                   suggestions |-> normalize_suggestions(v.suggestions),
                   sources |-> JList(<<>>)]

\* The result built from the parsed final reply: answer, suggestions, sources.
\* The older package takes sources as "parsed.get('sources') or
\* self._extract_sources(answer)".
synthesis_result(var, parsed) ==
    LET stripped == strip(py_str(parsed.answer, ""))
        answer   == IF stripped = "" THEN "No response." ELSE stripped
    IN  [kind |-> "AnswerSynthesis", answer |-> answer,
         suggestions |-> normalize_suggestions(parsed.suggestions),
         sources |-> IF var = "tracebrain"
                     THEN normalize_sources(parsed.sources, answer)
                     ELSE IF truthy(parsed.sources) THEN parsed.sources
                          ELSE extract_sources(answer)]

\* The result of the exhausted branch.
exhausted_result(var) ==
    [kind |-> "Exhausted", answer |-> FALLBACK, suggestions |-> <<>>,
     sources |-> IF var = "tracebrain" THEN JList(<<>>) ELSE JNull]

\* The result query() returns when LIBRARIAN_AVAILABLE is false.
unavailable_result(var) ==
    [kind |-> "unavailable",
     answer |-> "Librarian is not available. Check provider configuration and API keys.",
     suggestions |-> <<>>,
     sources |-> IF var = "tracebrain" THEN JList(<<>>) ELSE JNull]

replyFrame == <<avail, turnsLeft, sid, question, tools, loopVars, response, attempts,
                histBefore, lastRead, guardVars, variant, searchVars, raceVars, callVars>>

\* query() with no provider available: the fixed result, nothing persisted.
ReturnUnavailable ==
    /\ pc = "reply"
    /\ pc' = "respond"
    /\ reply' = NoResult
    /\ result' = unavailable_result(variant)
    /\ UNCHANGED <<storeVars, raised, ev, replyFrame>>

\* The Abstain branch: the clarification exchange (tracebrain only), the
\* result, save_chat_message, return.
AbstainBranch ==
    /\ pc = "reply"
    /\ IF variant = "tracebrain"
       THEN \E r \in Replies :
               /\ reply' = r
               /\ PersistAndReturn(abstain_response_from_llm(r), <<"prov:abstain">>)
       ELSE /\ reply' = NoResult
            /\ PersistAndReturn(abstain_response, <<>>)
    /\ UNCHANGED replyFrame

\* The AnswerSynthesis branch from the final reply on: parse, normalise,
\* save_chat_message, return.
SynthesisBranch ==
    /\ pc = "reply"
    /\ \E r \in Replies :
          /\ reply' = r
          /\ IF r.form = "fault"
             THEN Raise("provider", <<"prov:synth">>) /\ UNCHANGED storeVars
             ELSE IF parsed_or_raw(r).t # "object"
             THEN Raise("internal", <<"prov:synth">>) /\ UNCHANGED storeVars
             ELSE PersistAndReturn(synthesis_result(variant, parsed_or_raw(r)),
                                   <<"prov:synth">>)
    /\ UNCHANGED replyFrame

\* The Exhausted branch of the plain-text path.
ExhaustedBranch ==
    /\ pc = "reply"
    /\ reply' = NoResult
    /\ PersistAndReturn(exhausted_result(variant), <<>>)
    /\ UNCHANGED replyFrame

InitReply ==
    /\ messages = <<ChatMessage(1, "user", "q1", 1)>> /\ sessions = {1}
    /\ clock = 1 /\ ties = 0
    /\ avail \in BOOLEAN /\ turnsLeft = 0 /\ credit = 0
    /\ pc = "reply" /\ sid = 1 /\ question = "q1" /\ tools \in BOOLEAN
    /\ iter = 0 /\ resp = "text" /\ batch = <<>>
    /\ lastSql = "none" /\ sawSql = FALSE
    /\ text = "empty" /\ raised = "none" /\ result = NoResult /\ response = NoResult
    /\ ev = <<"history", "save:user">> /\ attempts = <<>> /\ histBefore = <<>>
    /\ lastRead = [sid |-> 0, rows |-> <<>>, upto |-> 0]
    /\ variant \in Variants /\ reply = NoResult
    /\ db = {} /\ db0 = {} /\ gq = <<>> /\ backend = "sqlite" /\ gres = NoResult
    /\ gopened = FALSE /\ gexec = <<>> /\ glimit = 0 /\ gfault = "none" /\ gproduced = <<>>
    /\ traces = <<>> /\ sargs = NoResult /\ sres = NoResult /\ sread = FALSE
    /\ savers = <<>> /\ lastCall = NoResult /\ lastSqlAt = 0

NextReply ==
    \/ ~avail /\ ReturnUnavailable
    \/ avail /\ AbstainBranch
    \/ avail /\ SynthesisBranch
    \/ avail /\ ~tools /\ ExhaustedBranch

SpecReply == InitReply /\ [][NextReply]_vars

(***************************************************************************)
(* Similarity search (SpecSearch): one search_similar_experiences call     *)
(* over a traces table, on either backend.                                 *)
(***************************************************************************)
MaxTraces == 3     \* rows of the traces table
MaxDist   == 1     \* largest cosine distance of a stored embedding to the query, in units
MaxRating == 2     \* largest feedback rating
MaxLimit  == 2     \* largest limit argument

\* Trace.feedback: NULL, or a dict that may hold a "rating" key.
NoFeedback == [t |-> "null"]
Feedback(has, r) == [t |-> "dict", has_rating |-> has, rating |-> r]
Feedbacks ==
    {NoFeedback, Feedback(FALSE, 0)} \cup {Feedback(TRUE, r) : r \in 1..MaxRating}

\* A traces row as the search sees it: whether Trace.embedding is non-null, the
\* cosine distance of that embedding to the query embedding, the feedback.
TraceRows ==
    {[embedding |-> FALSE, distance |-> 0, feedback |-> f] : f \in Feedbacks}
    \cup {[embedding |-> TRUE, distance |-> d, feedback |-> f] :
             d \in 0..MaxDist, f \in Feedbacks}

\* The table: trace id -> row.
TraceTables == UNION {[1..n -> TraceRows] : n \in 0..MaxTraces}

SearchTexts == {"", "q"}

\* What the embedding model does with the text: a vector, an empty vector, or
\* an exception inside the provider.
EmbeddingOutcomes == {"vector", "empty", "fault"}

\* get_embedding that lets the exception of the model out.
get_embedding_propagating(o) == o

\* get_embedding: the provider catches every exception of the model and
\* returns [] for it.
get_embedding(o) == IF o = "vector" THEN "vector" ELSE "empty"

\* cast(jsonb_extract_path_text(feedback, 'rating'), Integer): SQL NULL (the
\* empty set here) when feedback is NULL or has no rating key.
rating_value(fb) ==
    IF fb.t = "dict" /\ fb.has_rating THEN {fb.rating} ELSE {}

\* The three filters without the rating filter.
filter_any_rating(tr, min_rating) ==
    {i \in DOMAIN tr : tr[i].embedding /\ tr[i].feedback.t # "null"}

\* .filter(embedding IS NOT NULL).filter(feedback IS NOT NULL)
\* .filter(rating_value >= min_rating): a row passes when the comparison is true.
filter(tr, min_rating) ==
    {i \in DOMAIN tr :
        /\ tr[i].embedding
        /\ tr[i].feedback.t # "null"
        /\ \E r \in rating_value(tr[i].feedback) : r >= min_rating}

\* .order_by(distance.asc()): every order of the rows that ascends in
\* distance; rows of equal distance come in any order.
order_by(tr, ids) ==
    {q \in [1..Cardinality(ids) -> ids] :
        /\ \A i, j \in DOMAIN q : i # j => q[i] # q[j]
        /\ \A i, j \in DOMAIN q : i < j => tr[q[i]].distance <= tr[q[j]].distance}

\* .limit(limit)
limit_rows(q, limit) == SubSeq(q, 1, IF limit < Len(q) THEN limit ELSE Len(q))

\* One dict of the returned list; rating is trace.feedback.get("rating"),
\* None being the empty set.
experience(tr, i) ==
    [trace_id |-> i,
     score    |-> 1 - tr[i].distance,
     rating   |-> rating_value(tr[i].feedback),
     feedback |-> tr[i].feedback]

ListOf(rows) == [kind |-> "list", rows |-> rows]

search_similar_experiences(t, min_rating, limit, o) ==
    /\ pc = "search"
    /\ pc' = "search_done"
    /\ sargs' = [text |-> t, min_rating |-> min_rating, limit |-> limit, outcome |-> o]
    /\ IF backend = "sqlite" \/ t = ""
       THEN sres' = ListOf(<<>>) /\ sread' = FALSE
       ELSE LET embedding == get_embedding(o) IN
            IF embedding = "fault"
            THEN sres' = [kind |-> "raised"] /\ sread' = FALSE
            ELSE IF embedding = "empty"
            THEN sres' = ListOf(<<>>) /\ sread' = FALSE
            ELSE /\ sread' = TRUE
                 /\ \E q \in order_by(traces, filter(traces, min_rating)) :
                       sres' = ListOf([k \in DOMAIN limit_rows(q, limit) |->
                                          experience(traces, limit_rows(q, limit)[k])])
    /\ UNCHANGED <<storeVars, avail, turnsLeft, sid, question, tools, iter, resp, credit,
                   batch, lastSql, sawSql, text, raised, result, response, ev, attempts,
                   histBefore, lastRead, guardVars, replyVars, traces, raceVars, callVars>>

InitSearch ==
    /\ messages = <<>> /\ sessions = {} /\ clock = 0 /\ ties = 0
    /\ avail = TRUE /\ turnsLeft = 0 /\ credit = 0
    /\ pc = "search" /\ sid = 0 /\ question = "none" /\ tools = FALSE
    /\ iter = 0 /\ resp = "text" /\ batch = <<>>
    /\ lastSql = "none" /\ sawSql = FALSE
    /\ text = "empty" /\ raised = "none" /\ result = NoResult /\ response = NoResult
    /\ ev = <<>> /\ attempts = <<>> /\ histBefore = <<>>
    /\ lastRead = [sid |-> 0, rows |-> <<>>, upto |-> 0]
    /\ variant = "tracebrain" /\ reply = NoResult
    /\ db = {} /\ db0 = {} /\ gq = <<>> /\ backend \in Backends /\ gres = NoResult
    /\ gopened = FALSE /\ gexec = <<>> /\ glimit = 0 /\ gfault = "none" /\ gproduced = <<>>
    /\ traces \in TraceTables /\ sargs = NoResult /\ sres = NoResult /\ sread = FALSE
    /\ savers = <<>> /\ lastCall = NoResult /\ lastSqlAt = 0

NextSearch ==
    \E t \in SearchTexts, min_rating \in 1..MaxRating, limit \in 0..MaxLimit,
       o \in EmbeddingOutcomes :
        search_similar_experiences(t, min_rating, limit, o)

SpecSearch == InitSearch /\ [][NextSearch]_vars

(***************************************************************************)
(* Properties of the query protocol (Spec).                                *)
(***************************************************************************)

Failed(g) == g \in {"parse_error", "exec_error"}

\* query() returned a result (no exception left it).
Returned == result # NoResult

\* The endpoint has answered the running turn.
Answered == pc = "idle" /\ response # NoResult

Count(q, e) == Cardinality({i \in 1..Len(q) : q[i] = e})

\* C3: a run_sql_query that succeeds with zero rows ends the query in Abstain
\* at once, on the tool path and on the plain-text path: it is the last
\* attempt, no Guard or Similarity Search call follows it, the rest of the
\* batch is not dispatched, no iteration starts, and a result that is returned
\* is the Abstain result.
C3_EmptyResultAbstainsAtOnce ==
    \A i \in 1..Len(attempts) :
        attempts[i] = "empty" =>
            /\ i = Len(attempts)
            /\ pc \in {"abstain", "respond", "idle"}
            /\ \A j \in 1..Len(ev) :
                   ev[j] = "search" => \E m \in (j + 1)..Len(ev) : ev[m] = "guard"
            /\ Count(ev, "guard") = Len(attempts)
            /\ Returned => result.kind = "Abstain"

\* An Abstain answer was returned on the tool path while a second call of the
\* batch was still waiting.
C3_Witness ==
    /\ Answered /\ response.kind = "Abstain"
    /\ tools /\ Len(batch) > 1
    /\ attempts # <<>> /\ attempts[Len(attempts)] = "empty"

\* The attempts of the turn are k < N_max failures followed by one success
\* with rows.
FailuresThenRows ==
    /\ attempts # <<>>
    /\ Len(attempts) <= N_max
    /\ attempts[Len(attempts)] = "rows"
    /\ \A i \in 1..(Len(attempts) - 1) : Failed(attempts[i])

\* C4: when fewer than three consecutive run_sql_query attempts fail and the
\* next one succeeds with rows, the result the query returns is the
\* synthesised answer, never the Exhausted fallback.
C4_RecoversAfterFailures ==
    (Returned /\ FailuresThenRows) =>
        /\ result.kind = "AnswerSynthesis"
        /\ result.answer # FALLBACK

\* Two failures, each answered by a retry, then rows, then the answer.
C4_Witness ==
    /\ Answered /\ response.kind = "AnswerSynthesis"
    /\ attempts = <<"exec_error", "parse_error", "rows">>
    /\ Count(ev, "prov:error") = 2

\* The first three attempts of the turn all failed.
ThreeFailures ==
    /\ Len(attempts) >= N_max
    /\ \A i \in 1..N_max : Failed(attempts[i])

\* C5: when three or more consecutive run_sql_query attempts fail, the query
\* ends in Exhausted on either path: it returns the fixed fallback text and
\* has persisted exactly one assistant message.
C5_ThreeFailuresExhaust ==
    (Returned /\ ThreeFailures) =>
        /\ result.kind = "Exhausted"
        /\ result.answer = FALLBACK
        /\ Count(ev, "save:assistant") = 1

\* C6: when the provider asks for tool calls in each of the three iterations
\* of the tool loop and never gives a final answer (no run_sql_query found
\* rows or an empty result), the query returns the Exhausted fallback string.
C6_AlwaysToolCallsExhaust ==
    (Returned /\ tools /\ iter = N_max /\ resp = "calls" /\ ~sawSql
        /\ \A i \in 1..Len(attempts) : attempts[i] # "empty") =>
        /\ result.kind = "Exhausted"
        /\ result.answer = FALLBACK

\* The last chat_messages row of session s, 0 when it has none.
LastRow(s) ==
    IF SessionRows(s) = {} THEN 0
    ELSE CHOOSE i \in SessionRows(s) : \A j \in SessionRows(s) : j <= i

\* C7: whenever the endpoint has returned an answer for a query the agent
\* worked on (Abstain, AnswerSynthesis, Exhausted, or the answer given after
\* a failure other than a fault of the store itself), the session log ends
\* with the assistant message carrying that answer.
C7_AnswerIsPersisted ==
    (Answered /\ response.kind # "error" /\ raised # "store") =>
        /\ LastRow(response.session_id) # 0
        /\ messages[LastRow(response.session_id)].role = "assistant"
        /\ messages[LastRow(response.session_id)].content = response.answer

\* The row the running turn stored for its user message.
UserRowOfTurn ==
    {i \in SessionRows(sid) :
        /\ messages[i].role = "user"
        /\ messages[i].content = question
        /\ \A j \in 1..Len(histBefore) : histBefore[j] # i}

\* C8: the user message is in the session log before the first provider
\* exchange of the query and stays there whatever fails later: a step only
\* ever appends to the chat_messages table.
C8_UserMessageFirstAndKept ==
    /\ [](( \E j \in 1..Len(ev) : IsProviderCall(ev[j]) ) => UserRowOfTurn # {})
    /\ [][ /\ Len(messages') >= Len(messages)
           /\ SubSeq(messages', 1, Len(messages)) = messages ]_vars

\* A provider fault ended the query after a tool message was saved; the
\* user message is still stored.
C8_Witness ==
    /\ Answered /\ response.kind = "failure" /\ raised = "provider"
    /\ Count(ev, "save:tool") > 0
    /\ UserRowOfTurn # {}

\* The step dispatches a search_similar_traces call.
SearchDispatched ==
    /\ pc = "dispatch"
    /\ batch # <<>>
    /\ Head(batch) = "search_similar_traces"

\* C23: a search_similar_traces call never moves the query to Abstain, with
\* zero results or with some: unless an exception ends the query, its tool
\* message is saved, its result is sent back and the loop goes on with the
\* response the provider gave to it.
C23_SearchNeverAbstains ==
    [][ SearchDispatched =>
           /\ pc' # "abstain"
           /\ raised' = "none" =>
                 /\ ev' = ev \o <<"search", "save:tool", "prov:tool_result">>
                 /\ pc' \in {"dispatch", "after_loop"}
                 /\ pc' = "dispatch" =>
                       \/ batch' = Tail(batch) /\ iter' = iter
                       \/ Tail(batch) = <<>> /\ iter' = iter + 1 ]_vars

\* A search that found nothing was answered by the provider, and the query
\* is at its next response.
C23_Witness ==
    /\ pc \in {"dispatch", "after_loop"}
    /\ Len(ev) >= 3
    /\ SubSeq(ev, Len(ev) - 2, Len(ev)) = <<"search", "save:tool", "prov:tool_result">>
    /\ messages # <<>>
    /\ messages[Len(messages)].content = "SEARCH: slow\nRESULT: []"
    /\ raised = "none"

\* C24: a failure of the conversation store (history cannot be loaded, a
\* message cannot be saved) is not turned into an answer: the caller of the
\* endpoint gets a hard error.
C24_StoreFaultIsHardError ==
    (Answered /\ raised = "store") => response.kind = "error"

\* Every step stores its messages under the session id of the turn.
SavedUnderSessionId ==
    [][ \A i \in (Len(messages) + 1)..Len(messages') : messages'[i].sid = sid' ]_vars

\* C25: every response of the endpoint (answer, Abstain, Exhausted,
\* unavailable, failure) carries the session id the turn runs under, the
\* caller's or a fresh one, and all messages of the query are stored under it.
C25_SessionIdEchoed ==
    /\ [](Answered => response.kind # "error" /\ response.session_id = sid)
    /\ SavedUnderSessionId

\* The same with the Librarian available.
SessionIdEchoedWhenAvailable ==
    /\ []((Answered /\ avail) => response.kind # "error" /\ response.session_id = sid)
    /\ SavedUnderSessionId

\* The running turn has left query(), by return or by exception.
QueryOver == pc \in {"respond", "idle"} /\ ev # <<>>

\* query() returned an AnswerSynthesis result built from a reply that holds a
\* SELECT.
LeakedAnswerReturned ==
    /\ QueryOver
    /\ Returned
    /\ result.kind = "AnswerSynthesis"
    /\ extract_sql(text)

\* C27: on the tool path and on the plain-text path alike, no AnswerSynthesis
\* result is returned from a reply holding a SELECT unless the one corrective
\* exchange was issued before.
C27_LeakCheckedOnBothPaths ==
    LeakedAnswerReturned => Count(ev, "prov:fix") = 1

\* The same on the tool path alone.
LeakCheckedOnToolPath ==
    (LeakedAnswerReturned /\ tools) => Count(ev, "prov:fix") = 1

\* The step ran a run_sql_query whose text the guard rejected before
\* executing anything ("SQL Parsing Error: Only SELECT statements are
\* permitted.").
RejectedNow ==
    /\ Len(attempts') = Len(attempts) + 1
    /\ attempts'[Len(attempts')] = "parse_error"

Dispatching == pc = "dispatch" /\ batch # <<>>

\* The step goes on with the same batch.
SameBatch == pc' = "dispatch" /\ iter' = iter

\* The run_sql_query of the step failed or found nothing.
StoppedNow ==
    /\ Len(attempts') = Len(attempts) + 1
    /\ attempts'[Len(attempts')] \in {"parse_error", "exec_error", "empty"}

\* C29: the calls of one provider response are executed in the order given
\* (each step runs the first call left and goes on with the rest), and the
\* first run_sql_query that fails or finds nothing ends the batch: no later
\* call of it is executed.
C29_BatchInOrderUntilStopped ==
    [][ Dispatching =>
           /\ tool_events(Head(batch)) # <<>> =>
                 /\ Len(ev') > Len(ev)
                 /\ ev'[Len(ev) + 1] = Head(tool_events(Head(batch)))
           /\ SameBatch => batch' = Tail(batch)
           /\ StoppedNow => ~SameBatch ]_vars

\* The first call of a batch of two found nothing: the query ended in Abstain
\* and the second call was never executed.
C29_Witness ==
    /\ Answered /\ response.kind = "Abstain"
    /\ Len(batch) = 2
    /\ attempts = <<"empty">>
    /\ Count(ev, "guard") + Count(ev, "search") = 1

\* The step sends the result of a run_sql_query or search_similar_traces
\* call to the provider.
ResultSentNow ==
    /\ Dispatching
    /\ Head(batch) \in {"run_sql_query", "search_similar_traces"}
    /\ Count(ev', "prov:tool_result") > Count(ev, "prov:tool_result")

\* The step appended one tool message for the call before send_tool_result,
\* and called send_tool_result once.
SavedThenSentOnce ==
    /\ Count(ev', "prov:tool_result") = Count(ev, "prov:tool_result") + 1
    /\ Len(ev') >= Len(ev) + 3
    /\ ev'[Len(ev) + 2] = "save:tool"
    /\ ev'[Len(ev) + 3] = "prov:tool_result"
    /\ Len(messages') = Len(messages) + 1
    /\ messages'[Len(messages')].role = "tool"
    /\ messages'[Len(messages')].sid = sid

\* The message tells the result and the arguments of the call: no call of
\* other arguments or another result leaves the same message.
RecordsArgumentsAndResult ==
    \A g \in GuardReturns, a \in CallArgs(lastCall'.name) :
        tool_message(lastCall'.name, a, tool_result(lastCall'.name, g))
            = messages'[Len(messages')].content
        => a = lastCall'.args /\ tool_result(lastCall'.name, g) = lastCall'.result

\* C30: for every call dispatched to the guard or to similarity search, a
\* tool message recording the arguments and the result of the call is appended
\* to the session log before the result is sent to the provider, and the
\* result is sent exactly once.
C30_ToolMessageBeforeResult ==
    [][ ResultSentNow => SavedThenSentOnce /\ RecordsArgumentsAndResult ]_vars

\* The order and the count alone.
ToolMessageSavedThenSentOnce ==
    [][ ResultSentNow => SavedThenSentOnce ]_vars

\* The same for the calls to the guard.
SqlMessageBeforeResult ==
    [][ (ResultSentNow /\ Head(batch) = "run_sql_query")
            => SavedThenSentOnce /\ RecordsArgumentsAndResult ]_vars

\* C32: on the plain-text path a reply without an extractable SELECT does not
\* reach the guard, costs one iteration and is followed by one more prompt:
\* a query that returns without ever reaching the guard has made exactly
\* three exchanges and is Exhausted.
C32_NoSelectCountsAsIteration ==
    /\ [][ (pc = "text_loop" /\ pc' = "text_loop" /\ Len(attempts') = Len(attempts)) =>
               /\ ev' = ev \o <<"prov:ask">>
               /\ iter' = iter + 1 ]_vars
    /\ []((Returned /\ ~tools /\ Count(ev, "guard") = 0) =>
               /\ result.kind = "Exhausted"
               /\ result.answer = FALLBACK
               /\ Count(ev, "prov:ask") = 3)

\* Three replies without a SELECT: the query ended in Exhausted and the guard
\* was never invoked.
C32_Witness ==
    /\ Answered /\ ~tools /\ response.kind = "Exhausted"
    /\ ev = <<"history", "save:user", "prov:ask", "prov:ask", "prov:ask", "save:assistant">>

\* The calls the step added to ev.
AddedCalls == SubSeq(ev', Len(ev) + 1, Len(ev'))

\* C33: a provider exchange that raised is not made again: the step in which
\* it raises ends with that call and holds no provider exchange twice, no
\* call of any kind follows it in the query, and a query makes the Abstain
\* clarification exchange at most once.
C33_ProviderFaultNotRetried ==
    /\ [][ (raised = "none" /\ raised' = "provider") =>
               /\ AddedCalls # <<>>
               /\ IsProviderCall(AddedCalls[Len(AddedCalls)])
               /\ \A i, j \in DOMAIN AddedCalls :
                      (i < j /\ AddedCalls[i] = AddedCalls[j]) => ~IsProviderCall(AddedCalls[i]) ]_vars
    /\ [][ (raised = "provider" /\ pc # "idle") => ev' = ev ]_vars
    /\ [](Count(ev, "prov:abstain") <= 1)

\* The corrective exchange after a failed run_sql_query raised, and the
\* endpoint answered with nothing else done.
C33_Witness ==
    /\ Answered /\ raised = "provider" /\ tools
    /\ Len(ev) >= 2
    /\ ev[Len(ev)] = "prov:error"
    /\ ev[Len(ev) - 1] = "prov:tool_result"

\* The variables of a turn hold nothing of the turn before.
FreshTurn ==
    /\ iter = 0 /\ resp = "text" /\ batch = <<>>
    /\ lastSql = "none" /\ sawSql = FALSE /\ text = "empty"
    /\ raised = "none" /\ result = NoResult
    /\ ev = <<>> /\ attempts = <<>> /\ histBefore = <<>> /\ lastCall = NoResult /\ lastSqlAt = 0

\* C34: a query on a session reads that session's messages only, appends to
\* that session only and changes no stored message, and begins with nothing
\* of an earlier turn but the stored messages.
C34_SessionsAreIsolated ==
    /\ [](\A j \in 1..Len(histBefore) : messages[histBefore[j]].sid = sid)
    /\ [][ /\ SubSeq(messages', 1, Len(messages)) = messages
           /\ \A i \in (Len(messages) + 1)..Len(messages') : messages'[i].sid = sid' ]_vars
    /\ [](pc = "start" => FreshTurn)

\* A second turn, on another session than the first, answered: it read
\* nothing of the first session, whose messages are as they were.
C34_Witness ==
    /\ Answered /\ Returned
    /\ histBefore = <<>>
    /\ \E i \in 1..Len(messages) : messages[i].sid # sid
    /\ \E i \in 1..Len(messages) : messages[i].sid = sid

\* The last run_sql_query of the turn found nothing after an earlier one had
\* given rows.
EmptyAfterRows ==
    /\ tools
    /\ attempts # <<>>
    /\ attempts[Len(attempts)] = "empty"
    /\ \E i \in 1..(Len(attempts) - 1) : attempts[i] = "rows"

\* C35: on the tool path an empty run_sql_query result ends the query in
\* Abstain even after an earlier run_sql_query gave rows: no call follows it
\* but the clarification exchange, and no synthesis from the earlier rows is
\* asked for.
C35_EmptyAfterRowsAbstains ==
    /\ (EmptyAfterRows /\ Returned) =>
           /\ result.kind = "Abstain"
           /\ result.answer \in {CANNED, "CLARIFICATION"}
    /\ EmptyAfterRows =>
           /\ Count(ev, "prov:synth") = 0
           /\ Count(ev, "prov:fix") = 0
           /\ pc \in {"abstain", "respond", "idle"}

\* Rows, then an empty result: the endpoint answered with Abstain.
C35_Witness ==
    /\ Answered /\ response.kind = "Abstain"
    /\ attempts = <<"rows", "empty">>
    /\ sawSql /\ lastSql = "rows"

\* The last run_sql_query attempt of the query that gave rows, 0 when none did.
LastRowsAttempt ==
    IF \E i \in 1..Len(attempts) : attempts[i] = "rows"
    THEN CHOOSE i \in 1..Len(attempts) :
            /\ attempts[i] = "rows"
            /\ \A j \in (i + 1)..Len(attempts) : attempts[j] # "rows"
    ELSE 0

\* C36: on the tool path the synthesis prompt is sent after the loop exactly
\* when some run_sql_query of the query gave rows, and the rows it carries
\* are those of the most recent such call: a later failed call does not
\* clear them, and a query none of whose calls gave rows sends no synthesis
\* prompt.
C36_SynthesisFromLatestRows ==
    /\ [][ (pc = "after_loop" /\ Len(ev') > Len(ev) /\ ev'[Len(ev) + 1] = "prov:synth") =>
               /\ lastSqlAt > 0
               /\ lastSqlAt = LastRowsAttempt ]_vars
    /\ []((tools /\ pc = "leak_check") =>
               (Count(ev, "prov:synth") = 1 <=> LastRowsAttempt > 0))
    /\ []((tools /\ LastRowsAttempt = 0) => Count(ev, "prov:synth") = 0)

C36_Witness ==
    /\ Answered /\ response.kind = "AnswerSynthesis"
    /\ attempts = <<"rows", "rows", "exec_error">>
    /\ lastSqlAt = 2
    /\ Count(ev, "prov:synth") = 1
    /\ ev[Len(ev) - 1] = "prov:synth"

\* C37: a query makes at most one corrective no-SQL exchange, and the step
\* that makes it ends the query: the reply to it is normalised, saved and
\* returned as it is (or the query raises), also when it carries SQL again.
C37_OneCorrectiveExchange ==
    /\ [](Count(ev, "prov:fix") <= 1)
    /\ [][ (Len(ev') > Len(ev) /\ ev'[Len(ev) + 1] = "prov:fix") =>
               /\ pc = "leak_check" /\ extract_sql(text)
               /\ pc' = "respond"
               /\ raised' = "none" =>
                     /\ result' = [kind |-> "AnswerSynthesis", answer |-> answer_of(text')]
                     /\ ev' = ev \o <<"prov:fix", "save:assistant">> ]_vars

C37_Witness ==
    /\ Answered /\ response.kind = "AnswerSynthesis"
    /\ response.answer = "ANSWER_WITH_SQL"
    /\ text = "json_sql"
    /\ Count(ev, "prov:fix") = 1
    /\ ev[Len(ev) - 1] = "prov:fix"

\* A step that dispatches a call of a tool the Librarian does not know.
UnknownToolStep ==
    /\ pc = "dispatch" /\ batch # <<>>
    /\ Head(batch) \notin {"run_sql_query", "search_similar_traces"}
    /\ ev' # ev

\* C38: a call of a tool other than run_sql_query and search_similar_traces
\* reads and writes nothing in the store (no Guard call, no search, no tool
\* message saved); the provider is sent the result UNKNOWN_TOOL; and unless
\* that exchange raises, the query neither moves to Abstain nor returns nor
\* drops the rest of the batch: the next call of the batch is dispatched, or
\* after the last one the loop goes on with the provider's reply.
C38_UnknownToolDoesNothing ==
    [][ UnknownToolStep =>
            /\ messages' = messages /\ sessions' = sessions
            /\ attempts' = attempts
            /\ lastCall'.result = "UNKNOWN_TOOL"
            /\ ev'[Len(ev) + 1] = "prov:tool_result"
            /\ \A i \in (Len(ev) + 1)..Len(ev') :
                   ev'[i] \notin {"guard", "search", "save:tool", "save:assistant"}
            /\ raised' = "none" =>
                  /\ ev' = ev \o <<"prov:tool_result">>
                  /\ result' = result
                  /\ pc' \in {"dispatch", "after_loop"}
                  /\ Tail(batch) # <<>> => (pc' = "dispatch" /\ batch' = Tail(batch)) ]_vars

C38_Witness ==
    /\ pc = "dispatch"
    /\ lastCall # NoResult
    /\ lastCall.name = "other_tool" /\ lastCall.result = "UNKNOWN_TOOL"
    /\ batch = <<"run_sql_query">>
    /\ ev = <<"history", "save:user", "prov:ask", "prov:tool_result">>
    /\ Len(messages) = 1

\* A turn is asked for while no provider is available.
UnavailableTurn == pc = "idle" /\ ~avail /\ turnsLeft' < turnsLeft

\* What an unavailable turn leaves alone: no history is read, no message or
\* session is written, and no provider, Guard or search call is made.
UnavailableTurnHasNoEffect ==
    [][ UnavailableTurn =>
            /\ messages' = messages /\ sessions' = sessions
            /\ lastRead' = lastRead
            /\ ev' = <<>> /\ attempts' = <<>> /\ lastCall' = NoResult
            /\ pc' = "idle" ]_vars

\* C39: with no provider available the turn is answered at once with the
\* fixed unavailability answer: no history is loaded, no message is
\* persisted, and the provider, the Guard and the Similarity Search are not
\* called.
C39_UnavailableAnswersWithoutEffect ==
    /\ UnavailableTurnHasNoEffect
    /\ [][ UnavailableTurn =>
               /\ response' # NoResult
               /\ response'.kind = "unavailable"
               /\ response'.answer = UNAVAILABLE ]_vars

\* C11: a query starts at most three tool-exchange iterations and makes at
\* most three failed Guard executions, and once it is over with no provider
\* call having raised (and no fault of the store) it has ended in exactly one
\* of Abstain, AnswerSynthesis and Exhausted.
C11_BoundedAndTerminal ==
    /\ iter <= 3
    /\ Cardinality({i \in 1..Len(attempts) : Failed(attempts[i])}) <= 3
    /\ (QueryOver /\ raised \notin {"provider", "store"}) =>
           /\ Returned
           /\ result.kind \in {"Abstain", "AnswerSynthesis", "Exhausted"}

\* C13: for the predictable failures (Librarian unavailable, a provider
\* exchange failing, malformed model output) the caller of the endpoint gets
\* an answer object that carries the session id of the turn, never an error.
C13_AlwaysAnAnswerObject ==
    (Answered /\ raised # "store") =>
        /\ response.kind \in {"Abstain", "AnswerSynthesis", "Exhausted",
                              "unavailable", "failure"}
        /\ response.session_id = sid

\* C14: the answer given after a provider fault does not depend on the
\* internal message of the fault: it is the answer every other message of
\* such a fault would have led to.
C14_ApologyHidesDetail ==
    (Answered /\ response.kind = "failure" /\ raised = "provider") =>
        \A d \in FaultDetails("provider") : response.answer = except_answer(d)

\* The entries of h that are among the rows of keep, in the order of h.
Restrict(h, keep) ==
    SelectSeq(h, LAMBDA x : \E j \in 1..Len(keep) : keep[j] = x)

\* C9: the history read after an answer_query call extends the history read
\* before it: every earlier message is still there, and the earlier messages
\* come in the order they had before.
C9_HistoryOnlyExtends ==
    Answered =>
        \A h \in get_chat_history(sid) : Restrict(h, histBefore) = histBefore

(***************************************************************************)
(* Properties of the results (SpecReply).                                  *)
(***************************************************************************)

\* The fixed answer shape: suggestions a list of {label, value} pairs,
\* sources a list of strings.
WellShaped(res) ==
    /\ DOMAIN res = {"kind", "answer", "suggestions", "sources"}
    /\ \A i \in 1..Len(res.suggestions) :
           DOMAIN res.suggestions[i] = {"label", "value"}
    /\ res.sources.t = "list"
    /\ \A i \in 1..Len(res.sources.v) : res.sources.v[i].t = "str"

\* C12: every result the Librarian returns (Abstain, AnswerSynthesis,
\* Exhausted, provider unavailable; either package) has the fixed answer
\* shape: a string answer, suggestions a list of {label, value} pairs,
\* sources a list of strings and never null or of another type.
C12_FixedAnswerShape == Returned => WellShaped(result)

\* The same for the results of the tracebrain package alone.
ShapeHoldsInTracebrain == (Returned /\ variant = "tracebrain") => WellShaped(result)

\* The clarification exchange failed: the provider raised, the reply is not
\* a JSON object, or the object has no answer or an empty one.
ClarificationFailed ==
    /\ reply # NoResult
    /\ \/ reply.form \in {"fault", "raw"}
       \/ reply.v.t # "object"
       \/ reply.v.answer \in {Absent, JStr("")}

\* The last row of the session is the assistant message carrying the answer.
AssistantRowHolds(answer) ==
    /\ LastRow(sid) # 0
    /\ messages[LastRow(sid)].role = "assistant"
    /\ messages[LastRow(sid)].content = answer

\* C15: an Abstain result has a non-empty answer, is the canned response
\* whenever the clarification exchange failed in any way, is stored as the
\* assistant message of the turn, and is returned as a result, not raised.
C15_AbstainFallsBackToCanned ==
    (Returned /\ result.kind = "Abstain") =>
        /\ result.answer # ""
        /\ ClarificationFailed => result = abstain_response
        /\ AssistantRowHolds(result.answer)
        /\ raised = "none"

\* The provider raised in the clarification exchange and the canned
\* response was stored and returned.
C15_Witness ==
    /\ Returned /\ result = abstain_response
    /\ reply # NoResult /\ reply.form = "fault"
    /\ AssistantRowHolds(CANNED)

\* The provider gave a reply text to the exchange the result is built from.
ReplyParsed ==
    /\ pc = "respond"
    /\ variant = "tracebrain"
    /\ reply # NoResult
    /\ reply.form # "fault"

\* C31: parsing the reply never raises out of query(): for every reply text
\* (empty, not JSON, JSON that is not an object, an object with wrongly typed
\* fields) a fully typed result is returned.
C31_ParsingNeverRaises ==
    ReplyParsed =>
        /\ raised # "internal"
        /\ raised = "none" => Returned /\ WellShaped(result)

\* The same for the replies that are not JSON or are a JSON object.
ParsingHoldsForObjectsAndText ==
    (ReplyParsed /\ parsed_or_raw(reply).t = "object") =>
        /\ raised # "internal"
        /\ raised = "none" => Returned /\ WellShaped(result)

\* C16: an Abstain result carries a non-empty suggestions list, with at
\* least one {label, value} pair.
C16_AbstainHasSuggestions ==
    (Returned /\ result.kind = "Abstain") => Len(result.suggestions) >= 1

\* C17: when the final reply of AnswerSynthesis is not parseable as JSON
\* (and not empty), the answer is the raw reply text (surrounding blanks
\* aside), suggestions is the empty list and sources is the empty list.
C17_RawReplyBecomesAnswer ==
    (Returned /\ result.kind = "AnswerSynthesis" /\ variant = "tracebrain"
        /\ reply.form = "raw" /\ reply.s # "") =>
        /\ result.answer \in {reply.s, strip(reply.s)}
        /\ result.suggestions = <<>>
        /\ result.sources = JList(<<>>)

(***************************************************************************)
(* Properties of the store (SpecStore).                                    *)
(***************************************************************************)

\* C10: get_chat_history returns the saved messages of the session in the
\* order the saves were made (the rows by increasing id, each with the role
\* and content it was saved with), also when two saves got the same
\* created_at.
C10_HistoryInSaveOrder ==
    /\ \A a, b \in 1..Len(lastRead.rows) :
           a < b => lastRead.rows[a] < lastRead.rows[b]
    /\ {lastRead.rows[a] : a \in 1..Len(lastRead.rows)}
           = {i \in 1..lastRead.upto : messages[i].sid = lastRead.sid}

(***************************************************************************)
(* Properties of the guard (SpecGuard).                                    *)
(***************************************************************************)

GuardCalled == gres # NoResult

\* Exactly one top-level SELECT statement.
OneSelect(q) == Len(q) = 1 /\ q[1] = "SELECT"

\* C1: a call to execute_read_only_sql never executes a write with effect:
\* for every query text and either backend, the persisted rows after the call
\* are exactly the rows before it.
C1_GuardNeverWrites == GuardCalled => db = db0

\* C2: a query text that is not exactly one top-level SELECT (empty, a
\* non-SELECT statement, or more than one statement) gets a parsing-error
\* result, and no database session is opened and no statement is executed.
C2_RejectsAllButOneSelect ==
    (GuardCalled /\ ~OneSelect(gq)) =>
        /\ gres.kind = "parse_error"
        /\ ~gopened
        /\ gexec = <<>>

\* C18: execute_read_only_sql never raises: whatever the text and whatever
\* fault is met while parsing, opening the session or executing, the call
\* returns a value that is either {rows, count} or {error: message}.
C18_GuardNeverRaises ==
    GuardCalled =>
        \/ gres.kind = "rows" /\ DOMAIN gres = {"kind", "rows", "count"}
        \/ /\ gres.kind \in {"parse_error", "timeout", "exec_error", "internal_error"}
           /\ DOMAIN gres = {"kind", "error"}
           /\ gres.error # ""

\* An accepted query met a fault that has no except clause of its own.
C18_Witness ==
    /\ GuardCalled /\ gopened
    /\ gfault = "other"
    /\ gres = InternalError

\* C19: when the engine cancels an accepted statement because the statement
\* timeout elapsed, the call returns the timed-out error, and that value is
\* returned for no other execution fault.
C19_TimeoutHasOwnError ==
    GuardCalled =>
        /\ (gopened /\ gfault = "statement_timeout") => gres = TimedOutError
        /\ (gopened /\ gfault \in {"connect", "programming", "other"}) =>
               gres.error # TimedOutError.error

\* C20: a query that was accepted and executed returns {rows, count} where
\* rows are the first rows the engine produced, in its order, at most
\* row_limit of them, and count is the number of entries of rows.
C20_RowsCutToLimit ==
    (GuardCalled /\ gres.kind = "rows") =>
        /\ Len(gres.rows) <= glimit
        /\ Len(gres.rows) <= Len(gproduced)
        /\ \A i \in 1..Len(gres.rows) : gres.rows[i] = gproduced[i]
        /\ Len(gres.rows) < glimit => gres.rows = gproduced
        /\ gres.count = Len(gres.rows)

\* The engine produced more rows than the limit allows.
C20_Witness ==
    /\ GuardCalled /\ gres.kind = "rows"
    /\ Len(gproduced) > glimit
    /\ gres.count = glimit

(***************************************************************************)
(* Properties of similarity search (SpecSearch).                           *)
(***************************************************************************)

SearchCalled == pc = "search_done"

\* The call had a backend with vector search, a text and a computable embedding.
Searchable ==
    /\ SearchCalled
    /\ backend # "sqlite"
    /\ sargs.text # ""
    /\ sargs.outcome = "vector"

\* Traces with a non-null embedding, present feedback and rating >= m.
Eligible(m) ==
    {i \in DOMAIN traces :
        /\ traces[i].embedding
        /\ traces[i].feedback # NoFeedback
        /\ traces[i].feedback.has_rating
        /\ traces[i].feedback.rating >= m}

Smaller(a, b) == IF a < b THEN a ELSE b

\* rows is a reference result: eligible traces only, each once, described as
\* stored, in non-increasing score, as many as the limit allows, and no trace
\* left out is nearer than a trace returned.
ReferenceResult(rows, m, n) ==
    /\ Len(rows) = Smaller(n, Cardinality(Eligible(m)))
    /\ \A k \in DOMAIN rows :
          /\ rows[k].trace_id \in Eligible(m)
          /\ rows[k].score = 1 - traces[rows[k].trace_id].distance
          /\ rows[k].feedback = traces[rows[k].trace_id].feedback
    /\ \A k, l \in DOMAIN rows : k # l => rows[k].trace_id # rows[l].trace_id
    /\ \A k, l \in DOMAIN rows : k < l => rows[k].score >= rows[l].score
    /\ \A i \in Eligible(m) :
          (\A k \in DOMAIN rows : rows[k].trace_id # i) =>
             \A k \in DOMAIN rows : traces[rows[k].trace_id].distance <= traces[i].distance

\* C21: with vector search and a computable embedding, search returns the
\* reference result: the traces with an embedding, feedback and rating >=
\* min_rating, by ascending distance, cut to limit; never a trace of lower
\* rating or without feedback.
C21_SearchReturnsReference ==
    Searchable =>
        /\ sres.kind = "list"
        /\ ReferenceResult(sres.rows, sargs.min_rating, sargs.limit)

\* A search that had to cut (more eligible traces than the limit) while a
\* trace of lower rating and one without feedback were stored too.
C21_Witness ==
    /\ Searchable
    /\ sargs.limit >= 1
    /\ Len(sres.rows) = sargs.limit
    /\ Cardinality(Eligible(sargs.min_rating)) > sargs.limit
    /\ \E i \in DOMAIN traces :
          /\ traces[i].embedding
          /\ \/ traces[i].feedback = NoFeedback
             \/ traces[i].feedback.has_rating /\ traces[i].feedback.rating < sargs.min_rating

\* C22: search returns the empty list, raising nothing and not reading the
\* stored embeddings, on SQLite, for an empty text, and when the embedding
\* provider fails or returns an empty vector.
C22_NoSearchGivesEmptyList ==
    (/\ SearchCalled
     /\ \/ backend = "sqlite"
        \/ sargs.text = ""
        \/ sargs.outcome \in {"empty", "fault"})
    => sres = ListOf(<<>>) /\ ~sread

\* The embedding model failed on PostgreSQL for a text, with an eligible
\* trace stored.
C22_Witness ==
    /\ SearchCalled
    /\ backend = "postgresql"
    /\ sargs.text # ""
    /\ sargs.outcome = "fault"
    /\ Eligible(sargs.min_rating) # {}
    /\ sres = ListOf(<<>>)

(***************************************************************************)
(* Properties of concurrent turns (SpecRace).                              *)
(***************************************************************************)

\* Both turns run on one session id and have ended.
RaceOver ==
    /\ pc = "race"
    /\ savers[1].sid = savers[2].sid
    /\ \A p \in Turns : savers[p].pc \in {"done", "raised"}

Stored(c) == {i \in 1..Len(messages) : messages[i].content = c}

\* C26: two turns running at once on one session id, also one that does not
\* exist yet, only interleave: neither fails, every message either saves is in
\* the log exactly once, and the session exists.
C26_RaceOnlyInterleaves ==
    RaceOver =>
        /\ \A p \in Turns : savers[p].pc = "done"
        /\ \A p \in Turns, k \in 1..MaxSaves :
              /\ Cardinality(Stored(RaceContent(p, k))) = 1
              /\ \A i \in Stored(RaceContent(p, k)) : messages[i].sid = savers[p].sid
        /\ savers[1].sid \in sessions

\* The same for a session that existed before both turns began.
RaceInterleavesOnKnownSession ==
    (RaceOver /\ \A p \in Turns : savers[p].found) => C26_RaceOnlyInterleaves

====
